---- MODULE Spec2Model ----
(***************************************************************************)
(* A model of rclone_tui (src/src/rclone_tui/__main__.py): the two file    *)
(* panels, the shared directory-size cache with its background threads,    *)
(* the selection aggregate, the output buffer and the rclone runner.       *)
(*                                                                         *)
(* Paths are sequences of names ("/" is <<>>, "/src/photos" is             *)
(* <<"src", "photos">>); indices are 0-based as in the source, so the      *)
(* entry under the cursor is files[cursor + 1].                            *)
(***************************************************************************)
EXTENDS Integers, Sequences, FiniteSets, TLC

VARIABLES
    src_panel,      \* FilePanel: [path, files, cursor, selected, scroll_offset]
    dst_panel,      \* FilePanel
    active,         \* "src" or "dst": which panel `active` refers to
    key,            \* the key last returned by stdscr.getch()
    call,           \* the FilePanel method last called directly, with its arguments
    pc,             \* the foreground loop's position
    size_cache,     \* dict: directory path -> None or a byte count
    threads,        \* in-flight size threads: directory path -> how many
    size_val,       \* what current_item_size last returned, for each panel
    agg,            \* what aggregate_selection_size last returned
    operation,      \* "copy" or "move"
    output_type,    \* "progress" or "log"
    mode,           \* "attached" or "detached"
    output_buffer,  \* the lines appended so far
    scroll_offset,  \* the output window's scroll offset
    run             \* the state of the run_rclone call in progress

vars == <<src_panel, dst_panel, active, key, call, pc, size_cache, threads, size_val, agg,
          operation, output_type, mode, output_buffer, scroll_offset, run>>

----
\* Bounds of the model.

\* rows of the terminal (stdscr.getmaxyx)
Height == 15
\* most paths the two panels hold selected together
MaxSel == 1
\* most size threads in flight at once
MaxThreads == 2
\* largest |delta| given to move_cursor when it is called directly
MaxDelta == 7
\* largest max_rows given to move_cursor when it is called directly
MaxRows == 7
\* most paths selected in the states the aggregate is computed from
MaxPick == 2
\* most source paths given to run_rclone when it is called directly
MaxSrc == 2
\* most lines one rclone process writes
MaxLines == 1
\* the run key is taken while the output holds fewer lines than this
MaxBuf == 2

\* Python's None, where a number is expected
None == -1

Max(a, b) == IF a >= b THEN a ELSE b
Min(a, b) == IF a <= b THEN a ELSE b

----
\* The file system the program runs on.

Dir(list, readable) == [kind |-> "dir", size |-> 0, readable |-> readable, list |-> list]
File(size) == [kind |-> "file", size |-> size, readable |-> TRUE, list |-> <<>>]

\* path -> node; list is the order os.listdir returns the names in
Tree ==
    (<<>> :> Dir(<<"b.txt", "src", "Zed.sh", "dst", "a.txt", "locked">>, TRUE)) @@
    (<<"src">> :> Dir(<<"photos">>, TRUE)) @@
    (<<"src", "photos">> :> Dir(<<"p.jpg">>, TRUE)) @@
    (<<"src", "photos", "p.jpg">> :> File(500)) @@
    (<<"dst">> :> Dir(<<>>, TRUE)) @@
    (<<"locked">> :> Dir(<<"key.pem">>, FALSE)) @@
    (<<"locked", "key.pem">> :> File(7)) @@
    (<<"a.txt">> :> File(100)) @@
    (<<"b.txt">> :> File(20)) @@
    (<<"Zed.sh">> :> File(3))

\* the characters of each name, as code points
Ord ==
    ("src" :> <<115, 114, 99>>) @@
    ("dst" :> <<100, 115, 116>>) @@
    ("locked" :> <<108, 111, 99, 107, 101, 100>>) @@
    ("photos" :> <<112, 104, 111, 116, 111, 115>>) @@
    ("p.jpg" :> <<112, 46, 106, 112, 103>>) @@
    ("key.pem" :> <<107, 101, 121, 46, 112, 101, 109>>) @@
    ("a.txt" :> <<97, 46, 116, 120, 116>>) @@
    ("b.txt" :> <<98, 46, 116, 120, 116>>) @@
    ("Zed.sh" :> <<90, 101, 100, 46, 115, 104>>)

Paths == DOMAIN Tree
isdir(p) == p \in Paths /\ Tree[p].kind = "dir"
isfile(p) == p \in Paths /\ Tree[p].kind = "file"
getsize(p) == Tree[p].size
DirPaths == {p \in Paths : isdir(p)}

\* os.path.join(path, name), os.path.dirname(path) or "/", os.path.basename(path)
join(path, name) == Append(path, name)
dirname(path) == IF path = <<>> THEN <<>> ELSE SubSeq(path, 1, Len(path) - 1)
basename(path) == path[Len(path)]

\* os.listdir(path), and [] where it raises
listdir(path) == IF isdir(path) /\ Tree[path].readable THEN Tree[path].list ELSE <<>>

\* str.lower() on code points
lower(cs) == [i \in 1..Len(cs) |-> IF cs[i] \in 65..90 THEN cs[i] + 32 ELSE cs[i]]

\* a < b for two strings
RECURSIVE StrLess(_, _)
StrLess(a, b) ==
    IF b = <<>> THEN FALSE
    ELSE IF a = <<>> THEN TRUE
    ELSE IF a[1] # b[1] THEN a[1] < b[1]
    ELSE StrLess(Tail(a), Tail(b))

\* a sort key that compares the names as they are written
sort_key_cased(path, n) == [rank |-> IF isdir(join(path, n)) THEN 0 ELSE 1, name |-> Ord[n]]

\* refresh's sort key: (0 for a directory, 1 otherwise, the name lowered)
sort_key(path, n) == [rank |-> IF isdir(join(path, n)) THEN 0 ELSE 1, name |-> lower(Ord[n])]

KeyLess(k1, k2) == k1.rank < k2.rank \/ (k1.rank = k2.rank /\ StrLess(k1.name, k2.name))

\* sorted(entries, key=...): a stable sort, by insertion
RECURSIVE InsertSorted(_, _, _)
InsertSorted(path, n, s) ==
    IF s = <<>> THEN <<n>>
    ELSE IF KeyLess(sort_key(path, n), sort_key(path, s[1])) THEN <<n>> \o s
    ELSE <<s[1]>> \o InsertSorted(path, n, Tail(s))

RECURSIVE sorted(_, _)
sorted(path, entries) ==
    IF entries = <<>> THEN <<>>
    ELSE InsertSorted(path, entries[Len(entries)],
                      sorted(path, SubSeq(entries, 1, Len(entries) - 1)))

\* calc_size: the sizes of the files os.walk reaches (it skips what it cannot list)
RECURSIVE calc_size(_)
RECURSIVE WalkSum(_, _)
WalkSum(path, names) ==
    IF names = <<>> THEN 0
    ELSE LET full == join(path, names[1])
         IN (IF isdir(full) THEN calc_size(full) ELSE getsize(full))
            + WalkSum(path, Tail(names))
calc_size(path) == WalkSum(path, listdir(path))

----
\* FilePanel

\* refresh without the clamp of the cursor
refresh_noclamp(p) ==
    LET files == <<"..">> \o sorted(p.path, listdir(p.path))
    IN [p EXCEPT !.files = files, !.scroll_offset = 0]

\* refresh that keeps only the selected paths of the new listing
refresh_prune(p) ==
    LET files == <<"..">> \o sorted(p.path, listdir(p.path))
    IN [p EXCEPT !.files = files,
                 !.cursor = Max(0, Min(p.cursor, Len(files) - 1)),
                 !.scroll_offset = 0,
                 !.selected = {f \in @ : dirname(f) = p.path}]

refresh(p) ==
    LET files == <<"..">> \o sorted(p.path, listdir(p.path))
    IN [p EXCEPT !.files = files,
                 !.cursor = Max(0, Min(p.cursor, Len(files) - 1)),
                 !.scroll_offset = 0]

FilePanel(path) ==
    refresh([path |-> path, files |-> <<>>, cursor |-> 0, selected |-> {},
             scroll_offset |-> 0])

\* move_cursor that scrolls one row short when the cursor leaves the window's bottom
move_cursor_short(p, delta, max_rows) ==
    LET c == Max(0, Min(Len(p.files) - 1, p.cursor + delta))
    IN [p EXCEPT !.cursor = c,
                 !.scroll_offset =
                     IF max_rows = None THEN @
                     ELSE IF c < @ THEN c
                     ELSE IF c >= @ + max_rows THEN c - max_rows
                     ELSE @]

move_cursor(p, delta, max_rows) ==
    LET c == Max(0, Min(Len(p.files) - 1, p.cursor + delta))
    IN [p EXCEPT !.cursor = c,
                 !.scroll_offset =
                     IF max_rows = None THEN @
                     ELSE IF c < @ THEN c
                     ELSE IF c >= @ + max_rows THEN c - max_rows + 1
                     ELSE @]

enter(p) ==
    LET choice == p.files[p.cursor + 1]
        new_path == join(p.path, choice)
    IN refresh([p EXCEPT !.path = IF choice = ".." THEN dirname(p.path)
                                  ELSE IF isdir(new_path) THEN new_path
                                  ELSE @])

\* toggle_select that never removes
toggle_select_add(p) ==
    LET choice == p.files[p.cursor + 1]
        full == join(p.path, choice)
    IN IF choice = ".." THEN p ELSE [p EXCEPT !.selected = @ \cup {full}]

toggle_select(p) ==
    LET choice == p.files[p.cursor + 1]
        full == join(p.path, choice)
    IN IF choice = ".." THEN p
       ELSE IF full \in p.selected THEN [p EXCEPT !.selected = @ \ {full}]
       ELSE [p EXCEPT !.selected = @ \cup {full}]

----
\* main

panel_h == Max(10, (Height * 2) \div 3)

ActivePanel == IF active = "src" THEN src_panel ELSE dst_panel

\* the active panel becomes p
SetActive(p) ==
    /\ src_panel' = IF active = "src" THEN p ELSE src_panel
    /\ dst_panel' = IF active = "dst" THEN p ELSE dst_panel

NoCall == [op |-> "none", delta |-> 0, max_rows |-> 0]
NoAgg == [total |-> 0, pending |-> FALSE, count |-> 0]
NoCmd == [tool |-> "none"]
\* a call of run_rclone: its arguments (src_files, operation, dst_path, mode,
\* output_type), the sources still to do (queue), the argv last given to
\* subprocess.Popen (popen), the lines read from the running process (nlines), and
\* what has happened so far: the sources whose loop body was entered (tried), how each
\* open of the log file ended (opens), how each subprocess.Popen ended (spawns)
NewRun(src_files, op, dst_path, m, out) ==
    [src_files |-> src_files, queue |-> src_files, operation |-> op, dst_path |-> dst_path,
     mode |-> m, output_type |-> out, popen |-> NoCmd, nlines |-> 0,
     tried |-> <<>>, opens |-> <<>>, spawns |-> <<>>]

NoRun == NewRun(<<>>, "none", <<>>, "none", "none")

\* the module's globals and main's locals before its loop, the panels apart
UiInit ==
    /\ active = "src"
    /\ key = "none"
    /\ call = NoCall
    /\ size_val = [src |-> None, dst |-> None]
    /\ agg = NoAgg
    /\ operation = "copy"
    /\ output_type = "progress"
    /\ mode = "attached"
    /\ output_buffer = <<>>
    /\ scroll_offset = 0

RestInit == UiInit /\ run = NoRun

\* the state main builds before its loop
MainInit ==
    /\ src_panel = FilePanel(<<>>)
    /\ dst_panel = FilePanel(<<>>)
    /\ size_cache = <<>>
    /\ threads = [p \in DirPaths |-> 0]
    /\ RestInit

\* the output window: curses.newwin(height - panel_h - 2, ...), where 0 lines stands
\* for all the lines below its first; redraw_output shows max_y - 2 lines
output_h == IF Height - panel_h - 2 = 0 THEN Height - panel_h ELSE Height - panel_h - 2
visible_height == output_h - 2

\* seq[start:end] of Python, indices from 0, a negative one counted from the end
py_slice(seq, start, end) ==
    LET norm(i) == IF i < 0 THEN Max(0, Len(seq) + i) ELSE Min(i, Len(seq))
    IN SubSeq(seq, norm(start) + 1, norm(end))

\* the lines redraw_output puts in the window
redraw_output(buf, off) ==
    LET start == Max(0, Len(buf) - visible_height - off)
        end == Len(buf) - off
    IN py_slice(buf, start, end)

\* Page Up with no upper limit
scroll_up_nolimit(off, buf) == off + 1

\* the new scroll_offset on Page Up and on Page Down
scroll_up(off, buf) == Min(off + 1, Len(buf))
scroll_down(off) == Max(off - 1, 0)

\* what main's key dispatch does on key k ("other": a key with no branch); the
\* run key and the quit key are apart
dispatch(k) ==
    /\ key' = k
    /\ CASE k = "KEY_UP" -> SetActive(move_cursor(ActivePanel, -1, panel_h - 4))
         [] k = "KEY_DOWN" -> SetActive(move_cursor(ActivePanel, 1, panel_h - 4))
         [] k = "ENTER" -> SetActive(enter(ActivePanel))
         [] k = "BACKSPACE" -> SetActive(refresh([ActivePanel EXCEPT !.path = dirname(@)]))
         [] k = "SPACE" ->
                /\ SetActive(toggle_select(ActivePanel))
                /\ Cardinality(src_panel'.selected) + Cardinality(dst_panel'.selected) <= MaxSel
         [] OTHER -> UNCHANGED <<src_panel, dst_panel>>
    /\ active' = CASE k = "KEY_LEFT" -> "src" [] k = "KEY_RIGHT" -> "dst" [] OTHER -> active
    /\ operation' = CASE k = "c" -> "copy" [] k = "m" -> "move" [] OTHER -> operation
    /\ output_type' = CASE k = "p" -> "progress" [] k = "l" -> "log" [] OTHER -> output_type
    /\ mode' = CASE k = "a" -> "attached" [] k = "d" -> "detached" [] OTHER -> mode
    /\ scroll_offset' = CASE k = "KEY_PPAGE" -> scroll_up(scroll_offset, output_buffer)
                          [] k = "KEY_NPAGE" -> scroll_down(scroll_offset)
                          [] OTHER -> scroll_offset

----
\* The size cache, current_item_size and aggregate_selection_size.

\* size_cache[p] = v
Put(cache, p, v) == [q \in DOMAIN cache \cup {p} |-> IF q = p THEN v ELSE cache[q]]

\* the test below by truth value, which takes a size of 0 for no size
Final_truthy(cache, path) == path \in DOMAIN cache /\ cache[path] # None /\ cache[path] # 0

\* "path in size_cache and size_cache[path] is not None"
Final(cache, path) == path \in DOMAIN cache /\ cache[path] # None

\* list(a set): its elements in some order
RECURSIVE list(_)
list(S) == IF S = {} THEN <<>> ELSE LET x == CHOOSE y \in S : TRUE IN <<x>> \o list(S \ {x})

\* the loop of aggregate_selection_size over all_selected, from (total, pending)
RECURSIVE AggLoop(_, _, _, _)
AggLoop(paths, cache, total, pending) ==
    IF paths = <<>> THEN [total |-> total, pending |-> pending]
    ELSE LET path == paths[1]
         IN IF isfile(path) THEN AggLoop(Tail(paths), cache, total + getsize(path), pending)
            ELSE IF isdir(path) THEN
                IF Final(cache, path)
                THEN AggLoop(Tail(paths), cache, total + cache[path], pending)
                ELSE AggLoop(Tail(paths), cache, total, TRUE)
            ELSE AggLoop(Tail(paths), cache, total, pending)

\* the loop leaving at the first directory without a size
RECURSIVE AggLoopBreak(_, _, _, _)
AggLoopBreak(paths, cache, total, pending) ==
    IF paths = <<>> THEN [total |-> total, pending |-> pending]
    ELSE LET path == paths[1]
         IN IF isfile(path) THEN AggLoopBreak(Tail(paths), cache, total + getsize(path), pending)
            ELSE IF isdir(path) THEN
                IF Final(cache, path)
                THEN AggLoopBreak(Tail(paths), cache, total + cache[path], pending)
                ELSE [total |-> total, pending |-> TRUE]
            ELSE AggLoopBreak(Tail(paths), cache, total, pending)

\* the aggregate that leaves its loop at the first directory without a size
aggregate_break(src, dst, cache) ==
    LET all_selected == list(src.selected) \o list(dst.selected)
        r == AggLoopBreak(all_selected, cache, 0, FALSE)
    IN [total |-> r.total, pending |-> r.pending, count |-> Len(all_selected)]

\* the aggregate over the union of the two selected sets
aggregate_union(src, dst, cache) ==
    LET all_selected == list(src.selected \cup dst.selected)
        r == AggLoop(all_selected, cache, 0, FALSE)
    IN [total |-> r.total, pending |-> r.pending, count |-> Len(all_selected)]

aggregate_selection_size(src, dst, cache) ==
    LET all_selected == list(src.selected) \o list(dst.selected)
        r == AggLoop(all_selected, cache, 0, FALSE)
    IN [total |-> r.total, pending |-> r.pending, count |-> Len(all_selected)]

\* The foreground loop, one frame: draw_panel of the source panel and of the
\* destination panel (each asks current_item_size), then the status bar, then getch.
\* current_item_size on a directory is three steps: the test of the cache, the write
\* of None, the start of the thread.

Drawn == IF pc \in {"check_src", "mark_src", "start_src"} THEN "src" ELSE "dst"
DrawnPanel == IF Drawn = "src" THEN src_panel ELSE dst_panel
DrawnFull == join(DrawnPanel.path, DrawnPanel.files[DrawnPanel.cursor + 1])
AfterDraw == IF Drawn = "src" THEN "check_dst" ELSE "status"
InFlight == LET RECURSIVE Sum(_)
                Sum(S) == IF S = {} THEN 0
                          ELSE LET x == CHOOSE y \in S : TRUE IN threads[x] + Sum(S \ {x})
            IN Sum(DirPaths)

rest_frame == <<src_panel, dst_panel, active, key, call, operation, output_type, mode,
                output_buffer, scroll_offset, run>>

\* current_item_size up to its test of the cache, and its return where it needs no thread
SizeCheck ==
    /\ pc \in {"check_src", "check_dst"}
    /\ LET choice == DrawnPanel.files[DrawnPanel.cursor + 1]
           full == DrawnFull
       IN IF choice # ".." /\ isdir(full) /\ ~Final(size_cache, full)
          THEN /\ pc' = (IF Drawn = "src" THEN "mark_src" ELSE "mark_dst")
               /\ UNCHANGED size_val
          ELSE /\ pc' = AfterDraw
               /\ size_val' = [size_val EXCEPT ![Drawn] =
                                  IF choice = ".." THEN None
                                  ELSE IF isfile(full) THEN getsize(full)
                                  ELSE IF isdir(full) THEN size_cache[full]
                                  ELSE None]
    /\ UNCHANGED <<size_cache, threads, agg>>
    /\ UNCHANGED rest_frame

\* size_cache[full] = None
SizeMark ==
    /\ pc \in {"mark_src", "mark_dst"}
    /\ size_cache' = Put(size_cache, DrawnFull, None)
    /\ pc' = (IF Drawn = "src" THEN "start_src" ELSE "start_dst")
    /\ UNCHANGED <<threads, size_val, agg>>
    /\ UNCHANGED rest_frame

\* threading.Thread(...).start(), return None
SizeStart ==
    /\ pc \in {"start_src", "start_dst"}
    /\ InFlight < MaxThreads
    /\ threads' = [threads EXCEPT ![DrawnFull] = @ + 1]
    /\ size_val' = [size_val EXCEPT ![Drawn] = None]
    /\ pc' = AfterDraw
    /\ UNCHANGED <<size_cache, agg>>
    /\ UNCHANGED rest_frame

\* a size thread ends: size_cache.update({p: calc_size(p)})
SizeDone ==
    \E p \in DirPaths :
        /\ threads[p] > 0
        /\ size_cache' = Put(size_cache, p, calc_size(p))
        /\ threads' = [threads EXCEPT ![p] = @ - 1]
        /\ UNCHANGED <<pc, size_val, agg>>
        /\ UNCHANGED rest_frame

\* the status bar
Status ==
    /\ pc = "status"
    /\ agg' = aggregate_selection_size(src_panel, dst_panel, size_cache)
    /\ pc' = "getch"
    /\ UNCHANGED <<size_cache, threads, size_val>>
    /\ UNCHANGED rest_frame

rest_key == <<call, size_cache, threads, size_val, agg, output_buffer, run>>

\* getch and the dispatch of a cursor key or of a key with no branch
GetKey ==
    /\ pc = "getch"
    /\ \E k \in {"KEY_UP", "KEY_DOWN", "other"} : dispatch(k)
    /\ pc' = "check_src"
    /\ UNCHANGED rest_key

\* getch and the dispatch of a key with no branch
GetOtherKey ==
    /\ pc = "getch"
    /\ dispatch("other")
    /\ pc' = "check_src"
    /\ UNCHANGED rest_key

----
\* run_rclone. A line of the output buffer is a record: its kind and what its text
\* names.

LOGFILE_DEFAULT == <<"var", "log", "rclone_tui.log">>

\* output_buffer.append(line.rstrip("\n")): the records carry no line end
append_output(buf, line) == Append(buf, line)

\* the destination that ignores what the source is
effective_dst_asis(src, dst_path) == dst_path

\* dst: dst_path, with the source's base name joined to it for a directory
effective_dst(src, dst_path) ==
    IF isdir(src) THEN join(dst_path, basename(src)) ELSE dst_path

\* cmd
build_cmd(op, src, dst_path, out) ==
    [tool |-> "rclone", operation |-> op, src |-> src, dst |-> effective_dst(src, dst_path),
     flag |-> IF out = "progress" THEN "-P" ELSE IF out = "log" THEN "-vv" ELSE ""]

RunSrc == Head(run.queue)
RunCmd == build_cmd(run.operation, RunSrc, run.dst_path, run.output_type)
NotFoundLine == [kind |-> "rclone_not_found"]

rest_run == <<src_panel, dst_panel, active, key, call, size_cache, threads, size_val, agg,
              operation, output_type, mode, scroll_offset>>

\* the test of src_files at the top of run_rclone
RunEnter ==
    /\ pc = "run_call"
    /\ IF run.queue = <<>>
       THEN /\ output_buffer' = append_output(output_buffer, [kind |-> "no_items"])
            /\ pc' = "returned"
       ELSE /\ pc' = "run_item"
            /\ UNCHANGED output_buffer
    /\ UNCHANGED run
    /\ UNCHANGED rest_run

\* the for loop is over
RunReturn ==
    /\ pc = "run_item"
    /\ run.queue = <<>>
    /\ pc' = "returned"
    /\ UNCHANGED <<run, output_buffer>>
    /\ UNCHANGED rest_run

\* attached mode's except clause with no clause for FileNotFoundError
attached_except_none(exc) == "uncaught"

\* what attached mode's try statement does with an exception of subprocess.Popen
attached_except(exc) ==
    IF exc = "FileNotFoundError" THEN "rclone_not_found" ELSE "uncaught"

\* attached mode that does not read the process's output nor wait for it
RunAttached_nowait ==
    /\ pc = "run_item"
    /\ run.queue # <<>>
    /\ run.mode = "attached"
    /\ \E spawn \in {"ok", "FileNotFoundError", "PermissionError"} :
          /\ run' = [run EXCEPT !.popen = RunCmd, !.queue = Tail(@),
                                !.tried = Append(@, RunSrc), !.spawns = Append(@, spawn)]
          /\ pc' = "run_item"
          /\ IF spawn = "ok" THEN UNCHANGED output_buffer
             ELSE output_buffer' = append_output(output_buffer, NotFoundLine)
    /\ UNCHANGED rest_run

\* attached mode: subprocess.Popen with a pipe, which starts the process, or raises
\* FileNotFoundError (caught), or raises another OSError (not caught)
RunAttached ==
    /\ pc = "run_item"
    /\ run.queue # <<>>
    /\ run.mode = "attached"
    /\ \E spawn \in {"ok", "FileNotFoundError", "PermissionError"} :
          LET started == [run EXCEPT !.popen = RunCmd, !.nlines = 0,
                                     !.tried = Append(@, RunSrc),
                                     !.spawns = Append(@, spawn)]
          IN CASE spawn = "ok" ->
                     /\ run' = started
                     /\ pc' = "run_read"
                     /\ UNCHANGED output_buffer
               [] attached_except(spawn) = "rclone_not_found" ->
                     /\ run' = [started EXCEPT !.queue = Tail(@)]
                     /\ output_buffer' = append_output(output_buffer, NotFoundLine)
                     /\ pc' = "run_item"
               [] OTHER ->
                     /\ run' = started
                     /\ pc' = "raised"
                     /\ UNCHANGED output_buffer
    /\ UNCHANGED rest_run

\* one line of the process's output is forwarded
RunReadLine ==
    /\ pc = "run_read"
    /\ run.nlines < MaxLines
    /\ output_buffer' = append_output(output_buffer,
                            [kind |-> "output", src |-> RunSrc, n |-> run.nlines + 1])
    /\ run' = [run EXCEPT !.nlines = @ + 1]
    /\ UNCHANGED pc
    /\ UNCHANGED rest_run

\* the process's output ends, process.wait() gives its exit code, and the
\* completion line is appended
RunWait ==
    /\ pc = "run_read"
    /\ \E rc \in {0, 1} :
          output_buffer' = append_output(output_buffer,
                              [kind |-> "completed", operation |-> run.operation,
                               src |-> RunSrc, dst |-> run.popen.dst, rc |-> rc])
    /\ run' = [run EXCEPT !.queue = Tail(@)]
    /\ pc' = "run_item"
    /\ UNCHANGED rest_run

\* detached mode's except clauses without the one for PermissionError
detached_except_noperm(exc) ==
    IF exc = "FileNotFoundError" THEN "rclone_not_found" ELSE "uncaught"

\* what detached mode's try statement does with an exception of open or of
\* subprocess.Popen
detached_except(exc) ==
    IF exc = "FileNotFoundError" THEN "rclone_not_found"
    ELSE IF exc = "PermissionError" THEN "cannot_write_log"
    ELSE "uncaught"

\* detached mode: open(logfile, "a"), then subprocess.Popen into the file; either may
\* raise FileNotFoundError or PermissionError (caught) or another OSError (not caught)
RunDetached ==
    /\ pc = "run_item"
    /\ run.queue # <<>>
    /\ run.mode # "attached"
    /\ \E open \in {"ok", "FileNotFoundError", "PermissionError", "IsADirectoryError"},
          spawn \in {"ok", "FileNotFoundError", "PermissionError", "OSError"} :
          LET raised == IF open # "ok" THEN open ELSE spawn
              tried == [run EXCEPT !.tried = Append(@, RunSrc), !.opens = Append(@, open),
                                   !.popen = IF open = "ok" THEN RunCmd ELSE @,
                                   !.spawns = IF open = "ok" THEN Append(@, spawn) ELSE @]
          IN /\ open # "ok" => spawn = "ok"
             /\ CASE raised = "ok" ->
                     /\ output_buffer' = append_output(output_buffer,
                            [kind |-> "detached_started", operation |-> run.operation,
                             src |-> RunSrc, logfile |-> LOGFILE_DEFAULT])
                     /\ run' = [tried EXCEPT !.queue = Tail(@)]
                     /\ pc' = "run_item"
               [] detached_except(raised) = "rclone_not_found" ->
                     /\ output_buffer' = append_output(output_buffer, NotFoundLine)
                     /\ run' = [tried EXCEPT !.queue = Tail(@)]
                     /\ pc' = "run_item"
               [] detached_except(raised) = "cannot_write_log" ->
                     /\ output_buffer' = append_output(output_buffer,
                            [kind |-> "cannot_write_log", logfile |-> LOGFILE_DEFAULT])
                     /\ run' = [tried EXCEPT !.queue = Tail(@)]
                     /\ pc' = "run_item"
               [] OTHER ->
                     /\ run' = tried
                     /\ pc' = "raised"
                     /\ UNCHANGED output_buffer
    /\ UNCHANGED rest_run

----
\* The dashboard's panels under its keys: every key's handler as one step. What a
\* frame draws does not change a panel.

rest_nav == <<call, pc, size_cache, threads, size_val, agg, output_buffer, run>>

KeyUp == pc = "getch" /\ dispatch("KEY_UP") /\ UNCHANGED rest_nav
KeyDown == pc = "getch" /\ dispatch("KEY_DOWN") /\ UNCHANGED rest_nav
KeyLeft == pc = "getch" /\ dispatch("KEY_LEFT") /\ UNCHANGED rest_nav
KeyRight == pc = "getch" /\ dispatch("KEY_RIGHT") /\ UNCHANGED rest_nav
KeyEnter == pc = "getch" /\ dispatch("ENTER") /\ UNCHANGED rest_nav
KeyBackspace == pc = "getch" /\ dispatch("BACKSPACE") /\ UNCHANGED rest_nav
KeySpace == pc = "getch" /\ dispatch("SPACE") /\ UNCHANGED rest_nav

Init == MainInit /\ pc = "getch"

Next == KeyUp \/ KeyDown \/ KeyLeft \/ KeyRight \/ KeyEnter \/ KeyBackspace \/ KeySpace

Spec == Init /\ [][Next]_vars

----
\* One FilePanel under direct calls of its methods, with any arguments.

rest_panel == <<dst_panel, active, key, pc, size_cache, threads, size_val, agg, operation,
                output_type, mode, output_buffer, scroll_offset, run>>

CallMoveCursor ==
    \E delta \in -MaxDelta..MaxDelta, max_rows \in (1..MaxRows) \cup {None} :
        /\ src_panel' = move_cursor(src_panel, delta, max_rows)
        /\ call' = [op |-> "move_cursor", delta |-> delta, max_rows |-> max_rows]
        /\ UNCHANGED rest_panel

CallRefresh ==
    /\ src_panel' = refresh(src_panel)
    /\ call' = [op |-> "refresh", delta |-> 0, max_rows |-> 0]
    /\ UNCHANGED rest_panel

CallEnter ==
    /\ src_panel' = enter(src_panel)
    /\ call' = [op |-> "enter", delta |-> 0, max_rows |-> 0]
    /\ UNCHANGED rest_panel

InitPanel ==
    /\ src_panel \in {FilePanel(path) : path \in DirPaths}
    /\ dst_panel = FilePanel(<<>>)
    /\ size_cache = <<>>
    /\ threads = [p \in DirPaths |-> 0]
    /\ pc = "getch"
    /\ RestInit

NextPanel == CallMoveCursor \/ CallRefresh \/ CallEnter

SpecPanel == InitPanel /\ [][NextPanel]_vars

----
\* The frames of the dashboard with the size threads, under the cursor keys.

InitSize == MainInit /\ pc = "check_src"

NextSize == SizeCheck \/ SizeMark \/ SizeStart \/ SizeDone \/ Status \/ GetKey

SpecSize == InitSize /\ [][NextSize]_vars

----
\* The frames of the dashboard from any selection of at most MaxPick paths and any
\* state of the cache, each directory without a size having its thread in flight.

\* the paths a panel can hold selected: the entries of the listings
Selectable == UNION {{join(d, listdir(d)[i]) : i \in 1..Len(listdir(d))} : d \in DirPaths}

Picks == {ss \in (SUBSET Selectable) \X (SUBSET Selectable) :
             Cardinality(ss[1]) + Cardinality(ss[2]) <= MaxPick}

\* the directories current_item_size can be asked about
Sizable == {p \in Selectable : isdir(p)}

CacheStates == {c \in [Sizable -> {"unset", "pending", "final"}] : TRUE}

CacheOf(c) ==
    LET dom == {p \in Sizable : c[p] # "unset"}
    IN [p \in dom |-> IF c[p] = "pending" THEN None ELSE calc_size(p)]

InitAgg ==
    /\ \E ss \in Picks :
          /\ src_panel = [FilePanel(<<>>) EXCEPT !.selected = ss[1]]
          /\ dst_panel = [FilePanel(<<>>) EXCEPT !.selected = ss[2]]
    /\ \E c \in CacheStates :
          /\ size_cache = CacheOf(c)
          /\ threads = [p \in DirPaths |-> IF p \in Sizable /\ c[p] = "pending" THEN 1 ELSE 0]
    /\ pc = "check_src"
    /\ RestInit

NextAgg == SizeCheck \/ SizeDone \/ Status \/ GetOtherKey

SpecAgg == InitAgg /\ [][NextAgg]_vars

----
\* The dashboard's loop with the run key: frames, the keys of the mode and of the
\* output's scrolling, the run key with run_rclone inside it, the quit key. The
\* cursors stay on ".." (source panel at the root, destination panel in /dst); the
\* selections are there from the start.

\* the selections of the two panels
LoopPicks == {<<{}, {}>>,
              <<{<<"a.txt">>}, {}>>,
              <<{}, {<<"locked">>}>>,
              <<{<<"a.txt">>, <<"src", "photos">>}, {<<"a.txt">>}>>}

InitLoop ==
    /\ \E ss \in LoopPicks :
          /\ src_panel = [FilePanel(<<>>) EXCEPT !.selected = ss[1]]
          /\ dst_panel = [FilePanel(<<"dst">>) EXCEPT !.selected = ss[2]]
    /\ size_cache = <<>>
    /\ threads = [p \in DirPaths |-> 0]
    /\ pc = "check_src"
    /\ RestInit

\* getch and the dispatch of a key of the mode or of the scrolling
LoopKey ==
    /\ pc = "getch"
    /\ \E k \in {"a", "d", "KEY_PPAGE", "KEY_NPAGE"} : dispatch(k)
    /\ pc' = "check_src"
    /\ UNCHANGED rest_key

\* the sources of the run key, with the other panel's selection added
run_sources_both(src, dst) == src.selected \cup dst.selected

\* the sources of the run key: src_panel.selected
run_sources(src, dst) == src.selected

\* list(S) in each order iteration may give
Orders(S) == {l \in [1..Cardinality(S) -> S] :
                 \A i, j \in 1..Cardinality(S) : i # j => l[i] # l[j]}

\* the run key: the aggregate for the status message, then the call of run_rclone
KeyRun ==
    /\ pc = "getch"
    /\ Len(output_buffer) < MaxBuf
    /\ key' = "r"
    /\ agg' = aggregate_selection_size(src_panel, dst_panel, size_cache)
    /\ \E src_files \in Orders(run_sources(src_panel, dst_panel)) :
          run' = NewRun(src_files, operation, dst_panel.path, mode, output_type)
    /\ pc' = "run_call"
    /\ UNCHANGED <<src_panel, dst_panel, active, call, size_cache, threads, size_val,
                   operation, output_type, mode, output_buffer, scroll_offset>>

\* run_rclone has returned: the loop goes on with the next frame
RunDone ==
    /\ pc = "returned"
    /\ pc' = "check_src"
    /\ run' = NoRun
    /\ UNCHANGED <<src_panel, dst_panel, active, key, call, size_cache, threads, size_val,
                   agg, operation, output_type, mode, output_buffer, scroll_offset>>

\* an exception has left run_rclone: it leaves main's loop and main as well
Crash ==
    /\ pc = "raised"
    /\ pc' = "crashed"
    /\ UNCHANGED <<src_panel, dst_panel, active, key, call, size_cache, threads, size_val,
                   agg, operation, output_type, mode, output_buffer, scroll_offset, run>>

\* the quit key: break
KeyQuit ==
    /\ pc = "getch"
    /\ key' = "q"
    /\ pc' = "exited"
    /\ UNCHANGED <<src_panel, dst_panel, active, call, size_cache, threads, size_val,
                   agg, operation, output_type, mode, output_buffer, scroll_offset, run>>

NextLoop ==
    \/ SizeCheck \/ Status \/ LoopKey \/ KeyQuit \/ KeyRun
    \/ RunEnter \/ RunReturn \/ RunAttached \/ RunReadLine \/ RunWait \/ RunDetached
    \/ RunDone \/ Crash

SpecLoop == InitLoop /\ [][NextLoop]_vars

----
\* The frames of the dashboard while the source panel's cursor rests on a selected
\* directory of the root and keys without a branch keep coming: the threads are
\* scheduled fairly and the loop goes on.

Rested(d) ==
    LET files == FilePanel(<<>>).files
    IN [FilePanel(<<>>) EXCEPT
           !.cursor = (CHOOSE i \in 1..Len(files) : files[i] = d) - 1,
           !.selected = {<<d>>}]

InitLive ==
    /\ \E i \in 1..Len(listdir(<<>>)) :
          /\ isdir(<<listdir(<<>>)[i]>>)
          /\ src_panel = Rested(listdir(<<>>)[i])
    /\ dst_panel = FilePanel(<<>>)
    /\ size_cache = <<>>
    /\ threads = [p \in DirPaths |-> 0]
    /\ pc = "check_src"
    /\ RestInit

NextLive == SizeCheck \/ SizeMark \/ SizeStart \/ SizeDone \/ Status \/ GetOtherKey

SpecLive ==
    /\ InitLive
    /\ [][NextLive]_vars
    /\ WF_vars(SizeCheck) /\ WF_vars(SizeMark) /\ WF_vars(SizeStart)
    /\ WF_vars(SizeDone) /\ WF_vars(Status) /\ WF_vars(GetOtherKey)

----
\* One call of run_rclone, with any arguments.

\* the paths given as sources
RunSources == {<<"a.txt">>, <<"src", "photos">>, <<"locked">>}

\* the lists of at most n of them, none twice
RECURSIVE SrcLists(_)
SrcLists(n) ==
    IF n = 0 THEN {<<>>}
    ELSE LET shorter == SrcLists(n - 1)
         IN shorter \cup {Append(l, x) : <<l, x>> \in
                             {lx \in shorter \X RunSources :
                                 \A i \in 1..Len(lx[1]) : lx[1][i] # lx[2]}}

InitRun ==
    /\ src_panel = FilePanel(<<>>)
    /\ dst_panel = FilePanel(<<>>)
    /\ size_cache = <<>>
    /\ threads = [p \in DirPaths |-> 0]
    /\ UiInit
    /\ pc = "run_call"
    /\ \E op \in {"copy", "move"}, m \in {"attached", "detached"},
          out \in {"progress", "log"}, dst_path \in {<<>>, <<"dst">>},
          src_files \in SrcLists(MaxSrc) :
          run = NewRun(src_files, op, dst_path, m, out)

NextRun == RunEnter \/ RunReturn \/ RunAttached \/ RunReadLine \/ RunWait \/ RunDetached

SpecRun == InitRun /\ [][NextRun]_vars

----
\* C1: no directory has more than one size thread in flight.
OneThreadPerPath == \A p \in DirPaths : threads[p] <= 1

----
\* C2: after move_cursor(delta, max_rows) the cursor is an index of files and, when
\* max_rows is a number (at least 1), it is inside [scroll_offset, scroll_offset +
\* max_rows).
MoveCursorInWindow ==
    call.op = "move_cursor" =>
        /\ 0 <= src_panel.cursor /\ src_panel.cursor <= Len(src_panel.files) - 1
        /\ call.max_rows # None =>
               /\ src_panel.scroll_offset <= src_panel.cursor
               /\ src_panel.cursor < src_panel.scroll_offset + call.max_rows

\* a move up that started below the window: the cursor is now on the window's last
\* row, so before the call it was past it
MovedFromOutsideWindow ==
    /\ call.op = "move_cursor"
    /\ call.delta < 0
    /\ call.max_rows >= 2
    /\ src_panel.cursor > 0
    /\ src_panel.cursor = src_panel.scroll_offset + call.max_rows - 1

----
\* C4: after any sequence of panel operations, each panel's files is non-empty with
\* ".." at index 0 and its cursor is an index of files.
PanelWellFormed ==
    \A p \in {src_panel, dst_panel} :
        /\ Len(p.files) >= 1
        /\ p.files[1] = ".."
        /\ 0 <= p.cursor /\ p.cursor < Len(p.files)

\* a panel that entered the unreadable directory from a cursor further down
InUnreadableDir ==
    /\ key = "ENTER"
    /\ ActivePanel.path = <<"locked">>
    /\ ActivePanel.files = <<"..">>
    /\ ActivePanel.cursor = 0

\* C3: each panel's cursor is inside the window [scroll_offset, scroll_offset +
\* panel_h - 4) the panel draws.
CursorInWindow ==
    \A p \in {src_panel, dst_panel} :
        p.scroll_offset <= p.cursor /\ p.cursor < p.scroll_offset + (panel_h - 4)

\* C5: a second toggle_select right after a SPACE key gives back the selected set from
\* before the key, and on ".." the key changes nothing.
ToggleTwiceRestores ==
    [][key' = "SPACE" =>
          /\ toggle_select(ActivePanel').selected = ActivePanel.selected
          /\ ActivePanel.files[ActivePanel.cursor + 1] = ".." =>
                 (src_panel' = src_panel /\ dst_panel' = dst_panel)]_vars

\* a SPACE key has just taken a selected path out again
ToggledOff ==
    /\ key = "SPACE"
    /\ ActivePanel.cursor > 0
    /\ join(ActivePanel.path, ActivePanel.files[ActivePanel.cursor + 1]) \notin ActivePanel.selected

NavKeys == {"KEY_UP", "KEY_DOWN", "KEY_LEFT", "KEY_RIGHT", "ENTER", "BACKSPACE"}

\* C6: the navigation keys leave both selected sets as they are; only SPACE changes one.
SelectionPersists ==
    [][/\ key' \in NavKeys =>
            (src_panel'.selected = src_panel.selected /\ dst_panel'.selected = dst_panel.selected)
       /\ (src_panel'.selected # src_panel.selected \/ dst_panel'.selected # dst_panel.selected)
            => key' = "SPACE"]_vars

\* a panel has navigated away from the directory of a path it holds selected
SelectedOutOfListing ==
    /\ key \in {"ENTER", "BACKSPACE"}
    /\ \E p \in ActivePanel.selected : dirname(p) # ActivePanel.path

----
\* The status bar's step, and the bytes a selected path stands for.

StatusStep == pc = "status" /\ pc' = "getch"

Selected == src_panel.selected \cup dst_panel.selected

Unresolved(p) == p \notin DOMAIN size_cache \/ size_cache[p] = None

Bytes(p) ==
    IF isfile(p) THEN getsize(p)
    ELSE IF isdir(p) /\ ~Unresolved(p) THEN size_cache[p]
    ELSE 0

RECURSIVE SumBytes(_)
SumBytes(S) == IF S = {} THEN 0 ELSE LET x == CHOOSE y \in S : TRUE IN Bytes(x) + SumBytes(S \ {x})

\* C7: the pending flag the aggregate returns is true exactly when some selected
\* directory has no entry in size_cache or the entry None.
PendingIffUnresolvedDir ==
    [][StatusStep => (agg'.pending <=> \E p \in Selected : isdir(p) /\ Unresolved(p))]_vars

\* the aggregate has found a file and a directory without a size selected
PendingWithFileAndDir ==
    /\ pc = "getch"
    /\ agg.pending
    /\ agg.count = 2
    /\ \E f \in Selected : isfile(f)
    /\ \E d \in Selected : isdir(d) /\ Unresolved(d)

\* the 100-byte file and the directory of 500 bytes are what is selected
ScenarioSelected ==
    /\ Selected = {<<"a.txt">>, <<"src", "photos">>}
    /\ src_panel.selected \cap dst_panel.selected = {}

\* C8: the total the aggregate returns is the bytes of the selected files plus the
\* sizes of the selected directories that have one; a directory without a size adds
\* nothing and is counted. A 100-byte file with a directory not yet sized gives
\* (100, pending, 2), and (600, not pending, 2) once the directory's size is 500.
TotalOfFilesAndSizedDirs ==
    [][StatusStep =>
          /\ agg'.total = SumBytes(src_panel.selected) + SumBytes(dst_panel.selected)
          /\ agg'.count >= Cardinality({p \in Selected : isdir(p) /\ Unresolved(p)})
                           + Cardinality({p \in Selected : isfile(p)})
          /\ (ScenarioSelected /\ Unresolved(<<"src", "photos">>)) =>
                 agg' = [total |-> 100, pending |-> TRUE, count |-> 2]
          /\ (ScenarioSelected /\ ~Unresolved(<<"src", "photos">>)) =>
                 agg' = [total |-> 600, pending |-> FALSE, count |-> 2]]_vars

\* the last frame's aggregate was (100, pending, 2), the directory has its size of 500
\* since, and the status bar is about to be computed again
ResolvedSincePending ==
    /\ pc = "status"
    /\ ScenarioSelected
    /\ agg = [total |-> 100, pending |-> TRUE, count |-> 2]
    /\ ~Unresolved(<<"src", "photos">>)
    /\ size_cache[<<"src", "photos">>] = 500

\* C9: the count is the sum of the two panels' counts, and a path selected in both
\* panels is added twice to the total.
ConcatenationNotUnion ==
    [][StatusStep =>
          /\ agg'.count = Cardinality(src_panel.selected) + Cardinality(dst_panel.selected)
          /\ agg'.total = SumBytes(Selected)
                          + SumBytes(src_panel.selected \cap dst_panel.selected)]_vars

\* the aggregate has counted the 100-byte file selected in both panels twice
SamePathInBothPanels ==
    /\ pc = "getch"
    /\ src_panel.selected = {<<"a.txt">>}
    /\ dst_panel.selected = {<<"a.txt">>}
    /\ agg.count = 2
    /\ agg.total = 200

----
\* C10: the destination given to rclone is dst_path joined with the source's last
\* name when the source is a directory, and dst_path itself when it is a file, in both
\* modes and for both operations.
DestinationOfInvocation ==
    run.popen # NoCmd =>
        /\ run.popen.operation = run.operation
        /\ Tree[run.popen.src].kind = "dir" =>
               run.popen.dst = run.dst_path \o <<run.popen.src[Len(run.popen.src)]>>
        /\ Tree[run.popen.src].kind = "file" => run.popen.dst = run.dst_path

\* rclone has been called to copy the directory /src/photos into /dst
CopiesDirIntoDst ==
    /\ run.dst_path = <<"dst">>
    /\ run.popen # NoCmd
    /\ run.popen.operation = "copy"
    /\ run.popen.src = <<"src", "photos">>
    /\ run.popen.dst = <<"dst", "photos">>

----
\* every subprocess.Popen of this call so far has found no rclone on PATH
ToolAbsent == \A i \in 1..Len(run.spawns) : run.spawns[i] = "FileNotFoundError"

\* C11: in attached mode with rclone absent, a call over N sources enters the loop
\* body for every source in turn, appends one "rclone not found" line per attempt and
\* nothing else, never raises, and has made N attempts when it returns.
AbsentToolTriesAll ==
    (run.mode = "attached" /\ run.src_files # <<>> /\ ToolAbsent) =>
        /\ pc \in {"run_call", "run_item", "returned"}
        /\ Len(run.spawns) = Len(run.tried)
        /\ run.tried = SubSeq(run.src_files, 1, Len(run.tried))
        /\ output_buffer = [i \in 1..Len(run.spawns) |-> NotFoundLine]
        /\ pc = "returned" => Len(run.spawns) = Len(run.src_files)

\* an attached call over two sources has returned after two failed attempts
TwoNotFoundLines ==
    /\ pc = "returned"
    /\ run.mode = "attached"
    /\ Len(run.src_files) = 2
    /\ run.spawns = <<"FileNotFoundError", "FileNotFoundError">>
    /\ output_buffer = <<NotFoundLine, NotFoundLine>>

\* C12: in detached mode, a job whose log file cannot be opened for lack of permission
\* appends exactly one line, which names the log file, calls subprocess.Popen not at
\* all, and leaves the loop at the next source without raising.
LogDeniedReported ==
    [][run'.opens = Append(run.opens, "PermissionError") =>
          /\ output_buffer' = Append(output_buffer, [kind |-> "cannot_write_log",
                                                     logfile |-> LOGFILE_DEFAULT])
          /\ run'.spawns = run.spawns
          /\ run'.popen = run.popen
          /\ run'.queue = Tail(run.queue)
          /\ pc' = "run_item"]_vars

\* the log file of the second job of a detached call could not be opened
SecondJobLogDenied ==
    /\ run.mode = "detached"
    /\ run.opens = <<"ok", "PermissionError">>
    /\ run.spawns = <<"ok">>
    /\ Len(output_buffer) = 2
    /\ output_buffer[1].kind = "detached_started"
    /\ output_buffer[2].kind = "cannot_write_log"

\* the position of a source in the list given to run_rclone
SrcIndex(src) == CHOOSE i \in 1..Len(run.src_files) : run.src_files[i] = src

\* the lines of the output that come from a process or report its exit
ProcessLines == {a \in 1..Len(output_buffer) :
                    output_buffer[a].kind \in {"output", "completed"}}

\* C17: in attached mode at most one process runs, every process started earlier has
\* its completion line, and in the output the lines of a source come before its
\* completion line, which comes before every line of a later source.
AttachedSequential ==
    run.mode = "attached" =>
        /\ Cardinality({i \in 1..Len(run.spawns) : run.spawns[i] = "ok"})
             = Cardinality({a \in ProcessLines : output_buffer[a].kind = "completed"})
               + (IF pc = "run_read" THEN 1 ELSE 0)
        /\ \A a, b \in ProcessLines :
              a < b =>
                 /\ SrcIndex(output_buffer[a].src) <= SrcIndex(output_buffer[b].src)
                 /\ output_buffer[a].kind = "completed" =>
                        SrcIndex(output_buffer[a].src) < SrcIndex(output_buffer[b].src)
        /\ pc = "run_read" =>
              \A a \in ProcessLines :
                 output_buffer[a].src = run.popen.src => output_buffer[a].kind = "output"

\* two processes have run one after the other, each with a line of output
TwoProcessesInTurn ==
    /\ pc = "returned"
    /\ run.mode = "attached"
    /\ Len(output_buffer) = 4
    /\ output_buffer[1].kind = "output"
    /\ output_buffer[2].kind = "completed"
    /\ output_buffer[3].kind = "output"
    /\ output_buffer[4].kind = "completed"
    /\ output_buffer[1].src = output_buffer[2].src
    /\ output_buffer[3].src = output_buffer[4].src
    /\ output_buffer[2].src # output_buffer[4].src

----
\* name a may stand before name b in the listing of path: a directory before a
\* non-directory, and within a group b's lowered name not less than a's
MayPrecede(path, a, b) ==
    LET rank(n) == IF isdir(join(path, n)) THEN 0 ELSE 1
    IN \/ rank(a) < rank(b)
       \/ rank(a) = rank(b) /\ ~StrLess(lower(Ord[b]), lower(Ord[a]))

\* C13: a panel's entries are ".." first, then the directory's names, each exactly
\* once, the directories before the others and each group in case-insensitive order.
ListingSorted ==
    LET f == src_panel.files
        names == listdir(src_panel.path)
    IN /\ f[1] = ".."
       /\ Len(f) = Len(names) + 1
       /\ {f[i] : i \in 2..Len(f)} = {names[i] : i \in 1..Len(names)}
       /\ \A i, j \in 2..Len(f) : i < j => MayPrecede(src_panel.path, f[i], f[j])

\* refresh has listed the root, whose names differ in case and come unsorted
RootRefreshed ==
    /\ call.op = "refresh"
    /\ src_panel.path = <<>>
    /\ src_panel.files = <<"..", "dst", "locked", "src", "a.txt", "b.txt", "Zed.sh">>

----
\* the entry under the active panel's cursor is a regular file
OnRegularFile ==
    LET name == ActivePanel.files[ActivePanel.cursor + 1]
    IN name # ".." /\ isfile(join(ActivePanel.path, name))

\* C14: the Enter key on a regular file leaves the panel's path, cursor, scroll_offset
\* and selected as they were, whatever the panel's state.
EnterOnFileKeepsPanel ==
    [][(key' = "ENTER" /\ OnRegularFile) =>
          /\ ActivePanel'.path = ActivePanel.path
          /\ ActivePanel'.cursor = ActivePanel.cursor
          /\ ActivePanel'.scroll_offset = ActivePanel.scroll_offset
          /\ ActivePanel'.selected = ActivePanel.selected]_vars

----
\* C15: an entry of size_cache that holds a size keeps holding one: no step of
\* current_item_size or of a thread puts None in its place.
FinalStaysFinal ==
    [][\A p \in DOMAIN size_cache :
          Final(size_cache, p) => Final(size_cache', p)]_vars

----
\* the directory under the source panel's cursor
CursorDir == join(src_panel.path, src_panel.files[src_panel.cursor + 1])

\* C16: once a thread walks the directory under the cursor, its entry in size_cache
\* comes to hold a size, current_item_size comes to return that size, and the
\* aggregate over the selection that holds the directory comes to be not pending.
SizeEventuallyShown ==
    /\ (threads[CursorDir] > 0) ~> Final(size_cache, CursorDir)
    /\ (threads[CursorDir] > 0) ~> (size_val.src = calc_size(CursorDir))
    /\ (threads[CursorDir] > 0) ~> (agg.count = 1 /\ ~agg.pending)

----
\* the lines the output window shows
Shown == redraw_output(output_buffer, scroll_offset)

\* C18: scroll_offset stays between 0 and the length of the output buffer, the window
\* shows at most visible_height lines, which are the lines of the buffer up to the one
\* at len(buffer) - scroll_offset, and a step only ever appends to the buffer.
OutputLogWellFormed ==
    /\ [](/\ 0 <= scroll_offset
          /\ scroll_offset <= Len(output_buffer)
          /\ Len(Shown) <= visible_height
          /\ \A i \in 1..Len(Shown) :
                Shown[i] = output_buffer[Len(output_buffer) - scroll_offset - Len(Shown) + i])
    /\ [][/\ Len(output_buffer') >= Len(output_buffer)
          /\ SubSeq(output_buffer', 1, Len(output_buffer)) = output_buffer]_vars

\* a run has appended to an output that was scrolled up by one line, and the window
\* shows the line before the last
AppendedWhileScrolled ==
    /\ pc = "returned"
    /\ scroll_offset = 1
    /\ Len(output_buffer) >= 3
    /\ Shown = <<output_buffer[Len(output_buffer) - 1]>>

\* C19: the loop ends by the quit key only: no failure of a listing, of a stat, of
\* the start of rclone or of the opening of the log file leaves run_rclone or main.
OnlyQuitEndsLoop ==
    pc \in {"raised", "crashed", "exited"} => (pc = "exited" /\ key = "q")

\* C20: run_rclone gets the source panel's selected paths, each once, and the
\* destination panel's directory; its loop takes them one by one and gives rclone
\* no other source, while the status message counts both panels' selections; and no
\* step of the call changes a panel's selected set or the configuration.
RunTakesSourceSelection ==
    /\ [](run # NoRun =>
            /\ {run.src_files[i] : i \in 1..Len(run.src_files)} = src_panel.selected
            /\ Len(run.src_files) = Cardinality(src_panel.selected)
            /\ run.dst_path = dst_panel.path
            /\ run.tried = SubSeq(run.src_files, 1, Len(run.tried))
            /\ pc = "returned" => run.tried = run.src_files
            /\ run.popen # NoCmd =>
                  /\ run.popen.src \in src_panel.selected
                  /\ run.popen.dst \in {dst_panel.path,
                                        join(dst_panel.path, basename(run.popen.src))}
            /\ agg.count = Cardinality(src_panel.selected) + Cardinality(dst_panel.selected)
            /\ <<run.operation, run.mode, run.output_type>> = <<operation, mode, output_type>>)
    /\ [][(key' = "r" \/ run # NoRun) =>
             /\ src_panel'.selected = src_panel.selected
             /\ dst_panel'.selected = dst_panel.selected
             /\ <<operation', mode', output_type'>> = <<operation, mode, output_type>>]_vars

\* a run over the two paths selected in the source panel has returned; the path
\* selected in the destination panel was counted and not transferred
TwoOfThreeTransferred ==
    /\ pc = "returned"
    /\ Cardinality(src_panel.selected) = 2
    /\ dst_panel.selected = {<<"a.txt">>}
    /\ agg.count = 3
    /\ Len(run.tried) = 2
    /\ run.popen # NoCmd
    /\ run.popen.dst \in {<<"dst">>, <<"dst", "photos">>}

====
